---- MODULE Spec2Model ----
(***************************************************************************)
(* A model of the DrQA yes/no reader's training driver: train.py (main,    *)
(* load_data, BatchGen, score) and drqa/model.py (DocReaderModel).         *)
(*                                                                         *)
(* Two specifications share the pure operators:                            *)
(*   SpecBatch  BatchGen alone: construction (sort, chunk, shuffle) and    *)
(*              iteration (padding and masks), over bounded data sets;     *)
(*   Spec       main(): setup, resume, the epoch loop, evaluation, the     *)
(*              checkpoint files, over up to MaxRuns consecutive runs that *)
(*              share one model directory.                                 *)
(***************************************************************************)
EXTENDS Integers, Sequences, FiniteSets, TLC

(***************************************************************************)
(* Bounds of the model.                                                    *)
(***************************************************************************)
MaxData == 3        \* SpecBatch: examples in the list given to BatchGen
MaxBatch == 3       \* SpecBatch: largest batch_size tried
RngMod == 4         \* number of states of the modelled `random` generator
MaxEpochs == 2      \* Spec: largest --epochs
MaxRuns == 2        \* Spec: runs of main() on the same model directory
BatchSize == 2      \* Spec: --batch_size
ParamMod == 3       \* Spec: number of values of the abstract network parameters
MaxSaveFailures == 1 \* Spec: how many times torch.save fails in the life of the directory

(***************************************************************************)
(* Program constants.                                                      *)
(***************************************************************************)
pad_token == 0      \* BatchGen.pad_token (train.py:256; BERT's [PAD] is 0 too)
seed == 1013        \* --seed (train.py:115)

\* Python's None, for a name that holds an object; no exception
None == [kind |-> "None"]
NoExc == "NoExc"

Min(a, b) == IF a < b THEN a ELSE b
Max(a, b) == IF a > b THEN a ELSE b
Abs(a) == IF a < 0 THEN -a ELSE a

RECURSIVE SumSeq(_)
SumSeq(s) == IF s = <<>> THEN 0 ELSE s[1] + SumSeq(Tail(s))

RECURSIVE Concat(_)
\* the concatenation of a sequence of sequences
Concat(ss) == IF ss = <<>> THEN <<>> ELSE ss[1] \o Concat(Tail(ss))

(***************************************************************************)
(* The `random` module's generator, as far as BatchGen uses it: a state,   *)
(* a draw below n, and the state after a draw.                             *)
(***************************************************************************)
RngNext(s) == (s + 1) % RngMod
RandBelow(s, n) == s % n

RECURSIVE ShuffleFrom(_, _, _)
\* random.shuffle's loop: for i from the last index down to the second,
\* j = randbelow(i + 1) and x[i], x[j] are exchanged
ShuffleFrom(x, s, i) ==
    IF i < 2 THEN [data |-> x, state |-> s]
    ELSE LET j == RandBelow(s, i) + 1
             y == [x EXCEPT ![i] = x[j], ![j] = x[i]]
         IN ShuffleFrom(y, RngNext(s), i - 1)

Shuffle(x, s) == ShuffleFrom(x, s, Len(x))

(***************************************************************************)
(* BatchGen.__init__                                                       *)
(***************************************************************************)
\* x inserted behind every element whose context is not longer: sorted() is stable
InsertByLen(s, x) ==
    LET before == {k \in 1..Len(s) : Len(s[k].ctx) <= Len(x.ctx)}
        n == Cardinality(before)
    IN SubSeq(s, 1, n) \o <<x>> \o SubSeq(s, n + 1, Len(s))

RECURSIVE SortedByLen(_)
\* sorted(data, key=lambda x: len(x[1]))
SortedByLen(data) ==
    IF data = <<>> THEN <<>>
    ELSE InsertByLen(SortedByLen(SubSeq(data, 1, Len(data) - 1)), data[Len(data)])

\* a slice that runs one element into the next chunk: data[i:i + batch_size + 1]
MutChunks(data, batch_size) ==
    [k \in 1..((Len(data) + batch_size - 1) \div batch_size) |->
        SubSeq(data, (k - 1) * batch_size + 1, Min(k * batch_size + 1, Len(data)))]

\* [data[i:i + batch_size] for i in range(0, len(data), batch_size)], batch_size >= 1
Chunks(data, batch_size) ==
    [k \in 1..((Len(data) + batch_size - 1) \div batch_size) |->
        SubSeq(data, (k - 1) * batch_size + 1, Min(k * batch_size, Len(data)))]

\* a BatchGen that shuffles in evaluation mode too
MutBatchGenInit(data, batch_size, evaluation, rs) ==
    LET sh == Shuffle(Chunks(SortedByLen(data), batch_size), rs)
    IN [data |-> sh.data, eval |-> evaluation, random_state |-> sh.state]

\* the BatchGen object (its data and eval fields) and the generator state it leaves
BatchGenInit(data, batch_size, evaluation, rs) ==
    LET chunks == Chunks(SortedByLen(data), batch_size)
        sh == Shuffle(chunks, rs)
    IN IF evaluation
       THEN [data |-> chunks, eval |-> TRUE, random_state |-> rs]
       ELSE [data |-> sh.data, eval |-> FALSE, random_state |-> sh.state]

(***************************************************************************)
(* BatchGen.__iter__: one yielded tuple.  The POS/NER/feature tensors, the *)
(* text and the span are carried through untouched and are left out.       *)
(***************************************************************************)
RECURSIVE MaxLen(_)
MaxLen(docs) == IF docs = <<>> THEN 0 ELSE Max(Len(docs[1]), MaxLen(Tail(docs)))

\* LongTensor(batch_size, len).fill_(fill), then row i's prefix overwritten by doc i
Padded(docs, fill) ==
    [i \in 1..Len(docs) |->
        [j \in 1..MaxLen(docs) |-> IF j <= Len(docs[i]) THEN docs[i][j] ELSE fill]]

\* torch.ne in the place of torch.eq
MutTensorEq(t, v) == [i \in 1..Len(t) |-> [j \in 1..Len(t[i]) |-> t[i][j] # v]]

\* torch.eq(tensor, value), elementwise
TensorEq(t, v) == [i \in 1..Len(t) |-> [j \in 1..Len(t[i]) |-> t[i][j] = v]]

Collate(batch, evaluation) ==
    LET context_id == Padded([i \in 1..Len(batch) |-> batch[i].ctx], pad_token)
        question_id == Padded([i \in 1..Len(batch) |-> batch[i].q], pad_token)
    IN [context_id |-> context_id,
        context_mask |-> TensorEq(context_id, pad_token),
        question_id |-> question_id,
        question_mask |-> TensorEq(question_id, pad_token),
        text |-> [i \in 1..Len(batch) |-> batch[i].text],
        answ |-> IF evaluation THEN None ELSE [i \in 1..Len(batch) |-> batch[i].y]]

(***************************************************************************)
(* Accuracies.  score() returns a quotient of two integers, or NaN when    *)
(* the dev set is empty (a numpy float divided by zero); they are kept as  *)
(* reduced fractions so that the 1e-3 tolerance is computed exactly.       *)
(***************************************************************************)
RECURSIVE Gcd(_, _)
Gcd(a, b) == IF b = 0 THEN a ELSE Gcd(b, a % b)

Frac(n, d) == [nan |-> FALSE, num |-> n \div Gcd(n, d), den |-> d \div Gcd(n, d)]
NaN == [nan |-> TRUE, num |-> 0, den |-> 1]
Zero == Frac(0, 1)

\* a > b on floats: false as soon as one side is NaN
Gt(a, b) == ~a.nan /\ ~b.nan /\ a.num * b.den > b.num * a.den

\* math.fabs(a - b) > 1e-3
Inconsistent(a, b) ==
    ~a.nan /\ ~b.nan /\ 1000 * Abs(a.num * b.den - b.num * a.den) > a.den * b.den

\* score(pred, truth) once its assertion has passed
score(pred, truth) ==
    IF Len(truth) = 0 THEN NaN
    ELSE Frac(Cardinality({k \in 1..Len(truth) : pred[k] = truth[k]}), Len(truth))

(***************************************************************************)
(* The data files.  An example is its text (which identifies it), its      *)
(* context ids, its question ids and its label.                            *)
(***************************************************************************)
Ex(t, c, q, y) == [text |-> t, ctx |-> c, q |-> q, y |-> y]

\* data['train']
TrainData ==
    << Ex(1, <<1, 2>>, <<1>>, 1), Ex(2, <<2>>, <<2, 1>>, 0), Ex(3, <<1, 1, 2>>, <<1>>, 1) >>

\* data['dev'] as stored: not sorted, with contexts of equal length
DevChoices ==
    { <<>>,
      << Ex(11, <<1, 2>>, <<1>>, 1) >>,
      << Ex(11, <<1, 2>>, <<1>>, 1), Ex(12, <<2>>, <<2>>, 0), Ex(13, <<2, 2>>, <<1, 1>>, 0) >> }

\* x[:-1] of a dev example
Unlabelled(x) == [text |-> x.text, ctx |-> x.ctx, q |-> x.q]

(***************************************************************************)
(* The network and its optimizer (drqa/rnn_reader.py and torch.optim).     *)
(* Parameters are one number; a forward pass gives each row a score in     *)
(* tenths, 0..10, which depends on the parameters and on the row's ids     *)
(* (padding, being pad_token = 0, adds nothing to a row's sum).            *)
(***************************************************************************)
BaseLr == 8

InitNetwork(ts) == ts % ParamMod

NetworkForward(params, ex) ==
    [k \in 1..Len(ex.context_id) |->
        ((params + SumSeq(ex.context_id[k]) + 2 * SumSeq(ex.question_id[k])) * 3) % 11]

OptimizerStep(params, lr, ex, ts) ==
    (params + lr + SumSeq(ex.answ) + SumSeq(NetworkForward(params, ex)) + ts) % ParamMod

\* Python's round() on a score in [0, 1]: 0.5 goes to the even neighbour, 0
Round(tenths) == IF tenths > 5 THEN 1 ELSE 0

(***************************************************************************)
(* DocReaderModel                                                          *)
(***************************************************************************)
\* __init__(opt, embedding, state_dict), given the torch generator state
DocReaderModel(state_dict, ts) ==
    IF state_dict = None
    THEN [updates |-> 0, network |-> InitNetwork(ts),
          optimizer |-> [lr |-> BaseLr], training |-> TRUE]
    ELSE [updates |-> state_dict.updates, network |-> state_dict.network,
          optimizer |-> state_dict.optimizer, training |-> TRUE]

\* lr_decay(model.optimizer, lr_decay = 1/2)
lr_decay(m) == [m EXCEPT !.optimizer.lr = @ \div 2]

\* update(ex): one optimizer step, one more update
update(m, ex, ts) ==
    [m EXCEPT !.training = TRUE,
              !.network = OptimizerStep(m.network, m.optimizer.lr, ex, ts),
              !.updates = @ + 1]

\* predict(ex), as far as it gets: network.eval() runs first, then line 110 reads
\* the name `opt`, which is no local of predict and no attribute access on self:
\* it is looked up in the globals of drqa.model at call time.
predict(m, ex, opt_bound) ==
    IF opt_bound
    THEN [raised |-> NoExc, model |-> [m EXCEPT !.training = FALSE],
          predictions |-> [k \in 1..Len(ex.context_id) |->
                              Round(NetworkForward(m.network, ex)[k])]]
    ELSE [raised |-> "NameError", model |-> [m EXCEPT !.training = FALSE],
          predictions |-> <<>>]

\* a save() that stores the seeded generator state, not the current one
MutSaveParams(m, epoch, scores, rs, ts, by) ==
    [state_dict |-> [network |-> m.network, optimizer |-> m.optimizer,
                     updates |-> m.updates],
     epoch |-> epoch, accuracy |-> scores[1], best_eval |-> scores[2],
     random_state |-> seed % RngMod, torch_state |-> ts, saved_by |-> by]

\* the params dict of save() (line 136 reads the CUDA generator state whether or
\* not --cuda is set: torch.cuda is taken to be usable); saved_by is history (the run that wrote it, 0 for a
\* file that was in the directory before the first run), not a key of the file
SaveParams(m, epoch, scores, rs, ts, by) ==
    [state_dict |-> [network |-> m.network, optimizer |-> m.optimizer,
                     updates |-> m.updates],
     epoch |-> epoch, accuracy |-> scores[1], best_eval |-> scores[2],
     random_state |-> rs, torch_state |-> ts, saved_by |-> by]

(***************************************************************************)
(* The model directory.                                                    *)
(***************************************************************************)
NoFile == [kind |-> "NoFile"]
Corrupt == [kind |-> "Corrupt"]
BestModel == "best_model.pt"

\* 'checkpoint_epoch_{}.pt'.format(epoch)
CheckpointFile(epoch) == "checkpoint_epoch_" \o ToString(epoch) \o ".pt"

\* the epochs a run can reach: each run adds at most MaxEpochs to the epoch
\* of the checkpoint it starts from, and the oldest checkpoint is of epoch 1
MaxEpochNo == 1 + MaxRuns * MaxEpochs

FileNames == {BestModel} \cup {CheckpointFile(e) : e \in 1..MaxEpochNo}

\* what --resume may name; "" starts fresh
ResumeChoices == {"", BestModel} \cup {CheckpointFile(e) : e \in 1..MaxEpochs}

\* a best_model.pt left by an earlier training, possibly of other code or data
PriorCheckpoints ==
    { [state_dict |-> [network |-> 1, optimizer |-> [lr |-> BaseLr], updates |-> 2],
       epoch |-> 1, accuracy |-> a, best_eval |-> Zero,
       random_state |-> 2 % RngMod, torch_state |-> 1, saved_by |-> 0]
      : a \in {Frac(1, 3), Frac(1, 1), Frac(667, 2000)} }

\* torch.save(params, filename): written, failed before the file was created
\* (what is there stays), or failed while writing (a truncated file is left)
SaveOutcomes == {"ok", "unopened", "partial"}

torch_save(fs, filename, params, outcome) ==
    IF outcome = "ok" THEN [fs EXCEPT ![filename] = params]
    ELSE IF outcome = "partial" THEN [fs EXCEPT ![filename] = Corrupt]
    ELSE fs

(***************************************************************************)
(* State.                                                                  *)
(***************************************************************************)
VARIABLES
    \* the environment of main()
    opt_bound,       \* whether the name `opt` is bound in the globals of drqa.model
    data_dev,        \* data['dev'] in the data file
    args,            \* the parsed command line
    files,           \* the model directory: file name -> contents
    save_failures,   \* how many times torch.save has failed so far
    \* main()'s position and locals
    run,             \* how many times main() has been started
    pc,              \* "idle", "resume_eval", "epoch", "train", "eval", "save",
                     \* "done" (returned), "exit" (exit(1)), "crashed" (an exception)
    exc,             \* the exception that ended the run, or NoExc
    model, checkpoint, epoch_0, epoch, batches, i, predictions,
    accuracy, best_val_score, dev, dev_y,
    \* the generators
    random_state, torch_state,
    \* history of the current run: the calls made, in order, and the texts of the
    \* examples the entries of predictions were computed for
    events, pred_texts,
    \* history across runs: the training batch orders and the states at save time
    order_log, save_log,
    \* BatchGen on its own (SpecBatch)
    bg_in,           \* the arguments of BatchGen(data, batch_size, evaluation=...)
    bg_self,         \* the BatchGen object, None before it is built
    bg_pos,          \* how many batches __iter__ has yielded
    bg_out,          \* the tuple yielded last
    bg_hist          \* the batches yielded so far, as lists of texts

main_vars == << opt_bound, data_dev, args, files, save_failures, run, pc, exc, model, checkpoint,
                epoch_0, epoch, batches, i, predictions, accuracy, best_val_score,
                dev, dev_y, random_state, torch_state, events, pred_texts, order_log,
                save_log >>
bg_vars == << bg_in, bg_self, bg_pos, bg_out, bg_hist >>
vars == << main_vars, bg_vars >>

\* a call: what was called, in which epoch (0: the check of a resumed model), and
\* its size (the batches of an epoch, the examples of a batch, the predictions
\* returned or scored) or, for save, the file and how torch.save ended
Event(op, e, n) == [op |-> op, epoch |-> e, n |-> n]

\* the texts of a BatchGen's batches, in the order it will yield them
OrderOf(bs) == [k \in 1..Len(bs) |-> [j \in 1..Len(bs[k]) |-> bs[k][j].text]]

\* Before main() is first called.  drqa/model.py binds no global named opt, so
\* the name is unbound when train.py is run as a script; main(args) is also an
\* importable entry point (it takes its arguments and returns best_val_score),
\* and the process that calls it decides what the globals of drqa.model hold.
\* The directory is empty or holds a best_model.pt of an earlier training.
\* reduce_lr = TRUE stands for --reduce_lr 0.5, FALSE for the default 0.
MainInit ==
    /\ opt_bound \in BOOLEAN
    /\ data_dev \in DevChoices
    /\ args \in [resume : {""}, save_last_only : BOOLEAN, epochs : 1..MaxEpochs,
                 reduce_lr : BOOLEAN]
    /\ \E prior \in {NoFile} \cup PriorCheckpoints :
          files = [f \in FileNames |-> IF f = BestModel THEN prior ELSE NoFile]
    /\ save_failures = 0
    /\ run = 0
    /\ pc = "idle"
    /\ exc = NoExc
    /\ model = None
    /\ checkpoint = None
    /\ epoch_0 = 0
    /\ epoch = 0
    /\ batches = <<>>
    /\ i = 0
    /\ predictions = <<>>
    /\ accuracy = None
    /\ best_val_score = None
    /\ dev = <<>>
    /\ dev_y = <<>>
    /\ random_state = 0
    /\ torch_state = 0
    /\ events = <<>>
    /\ pred_texts = <<>>
    /\ order_log = {}
    /\ save_log = {}

BgIdle ==
    /\ bg_in = None
    /\ bg_self = None
    /\ bg_pos = 0
    /\ bg_out = None
    /\ bg_hist = <<>>

Init == MainInit /\ BgIdle

\* an uncaught exception: the traceback is printed and the process ends
Raise(name) ==
    /\ pc' = "crashed"
    /\ exc' = name

(***************************************************************************)
(* main(), lines 21-62: setup(), load_data(), and either the resume branch *)
(* up to the BatchGen of line 46 or the fresh model of lines 59-62.        *)
(***************************************************************************)
Start(r) ==
    /\ pc \in {"idle", "done", "exit", "crashed"}
    /\ run < MaxRuns
    /\ run' = run + 1
    /\ events' = <<>>
    /\ pred_texts' = <<>>
    /\ LET \* setup(), 172-174: the default names a file that is not there
           resume == IF r = BestModel /\ files[BestModel] = NoFile THEN "" ELSE r
           \* load_data(), 236-238
           sorted_dev == SortedByLen(data_dev)
           s0 == seed % RngMod
       IN /\ args' = [args EXCEPT !.resume = resume]
          /\ dev' = [k \in 1..Len(sorted_dev) |-> Unlabelled(sorted_dev[k])]
          /\ dev_y' = [k \in 1..Len(sorted_dev) |-> sorted_dev[k].y]
          /\ predictions' = <<>>
          /\ i' = 0
          /\ IF resume # "" /\ files[resume] \in {NoFile, Corrupt}
             THEN \* torch.load raises
                  /\ Raise(IF files[resume] = NoFile THEN "FileNotFoundError"
                           ELSE "UnpicklingError")
                  /\ random_state' = s0
                  /\ torch_state' = s0
                  /\ model' = None
                  /\ checkpoint' = None
                  /\ epoch_0' = 0
                  /\ epoch' = 0
                  /\ batches' = <<>>
                  /\ accuracy' = None
                  /\ best_val_score' = None
             ELSE IF resume # ""
             THEN LET ck == files[resume]
                      m == DocReaderModel(ck.state_dict, s0)
                  IN /\ checkpoint' = ck
                     /\ model' = IF args.reduce_lr THEN lr_decay(m) ELSE m
                     /\ epoch_0' = ck.epoch + 1
                     /\ epoch' = ck.epoch + 1
                     /\ random_state' = ck.random_state
                     /\ torch_state' = ck.torch_state
                     /\ batches' = BatchGenInit(dev', BatchSize, TRUE, ck.random_state).data
                     /\ accuracy' = None
                     /\ best_val_score' = None
                     /\ pc' = "resume_eval"
                     /\ exc' = NoExc
             ELSE /\ checkpoint' = None
                  /\ model' = DocReaderModel(None, s0)
                  /\ random_state' = s0
                  /\ torch_state' = RngNext(s0)
                  /\ epoch_0' = 1
                  /\ epoch' = 1
                  /\ batches' = <<>>
                  /\ accuracy' = Zero
                  /\ best_val_score' = Zero
                  /\ pc' = "epoch"
                  /\ exc' = NoExc
    /\ UNCHANGED bg_vars
    /\ UNCHANGED << opt_bound, data_dev, files, save_failures, order_log, save_log >>

\* one turn of a prediction loop (lines 48-50 and 79-81)
PredictStep ==
    LET res == predict(model, Collate(batches[i + 1], TRUE), opt_bound)
    IN /\ model' = res.model
       /\ events' = Append(events, Event("predict", IF pc = "resume_eval" THEN 0 ELSE epoch,
                                          Len(res.predictions)))
       /\ IF res.raised # NoExc
          THEN /\ Raise(res.raised)
               /\ UNCHANGED << predictions, pred_texts, i >>
          ELSE /\ predictions' = predictions \o res.predictions
               /\ pred_texts' = pred_texts \o Collate(batches[i + 1], TRUE).text
               /\ i' = i + 1
               /\ UNCHANGED << pc, exc >>

\* lines 47-50
ResumePredict ==
    /\ pc = "resume_eval"
    /\ i < Len(batches)
    /\ PredictStep
    /\ UNCHANGED bg_vars
    /\ UNCHANGED << opt_bound, data_dev, args, files, save_failures, run, checkpoint, epoch_0, epoch,
                    batches, accuracy, best_val_score, dev, dev_y, random_state,
                    torch_state, order_log, save_log >>

\* lines 51-57
ResumeScore ==
    /\ pc = "resume_eval"
    /\ i = Len(batches)
    /\ events' = Append(events, Event("score", 0, Len(predictions)))
    /\ IF Len(predictions) # Len(dev_y)
       THEN /\ Raise("AssertionError")
            /\ UNCHANGED << accuracy, best_val_score >>
       ELSE /\ accuracy' = score(predictions, dev_y)
            /\ IF Inconsistent(accuracy', checkpoint.accuracy)
               THEN /\ pc' = "exit"
                    /\ UNCHANGED << exc, best_val_score >>
               ELSE /\ best_val_score' = checkpoint.best_eval
                    /\ pc' = "epoch"
                    /\ UNCHANGED exc
    /\ UNCHANGED << bg_vars, pred_texts >>
    /\ UNCHANGED << opt_bound, data_dev, args, files, save_failures, run, model, checkpoint, epoch_0,
                    epoch, batches, i, predictions, dev, dev_y, random_state,
                    torch_state, order_log, save_log >>

\* lines 64-68: the loop goes on, and the epoch's training batches are built
BeginEpoch ==
    /\ pc = "epoch"
    /\ epoch < epoch_0 + args.epochs
    /\ LET bg == BatchGenInit(TrainData, BatchSize, FALSE, random_state)
       IN /\ batches' = bg.data
          /\ random_state' = bg.random_state
          /\ order_log' = order_log \cup
                {[run |-> run, epoch |-> epoch, order |-> OrderOf(bg.data)]}
    /\ i' = 0
    /\ pc' = "train"
    /\ events' = Append(events, Event("epoch", epoch, Len(batches')))
    /\ UNCHANGED << bg_vars, pred_texts >>
    /\ UNCHANGED << opt_bound, data_dev, args, files, save_failures, run, exc, model, checkpoint,
                    epoch_0, epoch, predictions, accuracy, best_val_score, dev, dev_y,
                    torch_state, save_log >>

\* lines 69-74
TrainStep ==
    /\ pc = "train"
    /\ i < Len(batches)
    /\ model' = update(model, Collate(batches[i + 1], FALSE), torch_state)
    /\ torch_state' = RngNext(torch_state)
    /\ i' = i + 1
    /\ events' = Append(events, Event("update", epoch, Len(batches[i + 1])))
    /\ UNCHANGED << bg_vars, pred_texts >>
    /\ UNCHANGED << opt_bound, data_dev, args, files, save_failures, run, pc, exc, checkpoint,
                    epoch_0, epoch, batches, predictions, accuracy, best_val_score,
                    dev, dev_y, random_state, order_log, save_log >>

\* lines 76-78
BeginEval ==
    /\ pc = "train"
    /\ i = Len(batches)
    /\ batches' = BatchGenInit(dev, BatchSize, TRUE, random_state).data
    /\ predictions' = <<>>
    /\ pred_texts' = <<>>
    /\ i' = 0
    /\ pc' = "eval"
    /\ UNCHANGED bg_vars
    /\ UNCHANGED << opt_bound, data_dev, args, files, save_failures, run, exc, model, checkpoint,
                    epoch_0, epoch, accuracy, best_val_score, dev, dev_y, random_state,
                    torch_state, events, order_log, save_log >>

\* lines 79-81
EvalPredict ==
    /\ pc = "eval"
    /\ i < Len(batches)
    /\ PredictStep
    /\ UNCHANGED bg_vars
    /\ UNCHANGED << opt_bound, data_dev, args, files, save_failures, run, checkpoint, epoch_0, epoch,
                    batches, accuracy, best_val_score, dev, dev_y, random_state,
                    torch_state, order_log, save_log >>

\* lines 82-83
EvalScore ==
    /\ pc = "eval"
    /\ i = Len(batches)
    /\ events' = Append(events, Event("score", epoch, Len(predictions)))
    /\ IF Len(predictions) # Len(dev_y)
       THEN /\ Raise("AssertionError")
            /\ UNCHANGED accuracy
       ELSE /\ accuracy' = score(predictions, dev_y)
            /\ pc' = "save"
            /\ UNCHANGED exc
    /\ UNCHANGED << bg_vars, pred_texts >>
    /\ UNCHANGED << opt_bound, data_dev, args, files, save_failures, run, model, checkpoint, epoch_0,
                    epoch, batches, i, predictions, best_val_score, dev, dev_y,
                    random_state, torch_state, order_log, save_log >>

\* lines 88-96 and the next turn of the for statement
SaveStep ==
    /\ pc = "save"
    /\ IF ~args.save_last_only \/ epoch = epoch_0 + args.epochs - 1
       THEN \E outcome \in SaveOutcomes :
              /\ outcome # "ok" => save_failures < MaxSaveFailures
              /\ save_failures' = IF outcome = "ok" THEN save_failures ELSE save_failures + 1
              /\ LET model_file == CheckpointFile(epoch)
                     params == SaveParams(model, epoch, <<accuracy, best_val_score>>,
                                          random_state, torch_state, run)
                     written == torch_save(files, model_file, params, outcome)
                 IN /\ save_log' = save_log \cup
                           {[run |-> run, epoch |-> epoch, updates |-> model.updates,
                             random_state |-> random_state, torch_state |-> torch_state]}
                    /\ IF ~Gt(accuracy, best_val_score)
                       THEN /\ events' = Append(events, Event("save", epoch, [file |-> model_file, outcome |-> outcome]))
                            /\ files' = written
                            /\ epoch' = epoch + 1
                            /\ pc' = "epoch"
                            /\ UNCHANGED << exc, best_val_score >>
                       ELSE /\ best_val_score' = accuracy
                            /\ events' = events \o << Event("save", epoch, [file |-> model_file, outcome |-> outcome]),
                                                      Event("copyfile", epoch, model_file) >>
                            /\ IF written[model_file] = NoFile
                               THEN \* copyfile raises: there is nothing to copy
                                    /\ Raise("FileNotFoundError")
                                    /\ files' = written
                                    /\ UNCHANGED epoch
                               ELSE /\ files' = [written EXCEPT ![BestModel] = written[model_file]]
                                    /\ epoch' = epoch + 1
                                    /\ pc' = "epoch"
                                    /\ UNCHANGED exc
       ELSE /\ epoch' = epoch + 1
            /\ pc' = "epoch"
            /\ UNCHANGED << files, save_failures, exc, best_val_score, events, save_log >>
    /\ UNCHANGED << bg_vars, pred_texts >>
    /\ UNCHANGED << opt_bound, data_dev, args, run, model, checkpoint, epoch_0, batches,
                    i, predictions, accuracy, dev, dev_y, random_state, torch_state,
                    order_log >>

\* line 97
Return ==
    /\ pc = "epoch"
    /\ epoch >= epoch_0 + args.epochs
    /\ pc' = "done"
    /\ UNCHANGED << bg_vars, pred_texts >>
    /\ UNCHANGED << opt_bound, data_dev, args, files, save_failures, run, exc, model, checkpoint,
                    epoch_0, epoch, batches, i, predictions, accuracy, best_val_score,
                    dev, dev_y, random_state, torch_state, events, order_log, save_log >>

Next ==
    \/ \E r \in ResumeChoices : Start(r)
    \/ ResumePredict
    \/ ResumeScore
    \/ BeginEpoch
    \/ TrainStep
    \/ BeginEval
    \/ EvalPredict
    \/ EvalScore
    \/ SaveStep
    \/ Return

Spec == Init /\ [][Next]_vars

(***************************************************************************)
(* BatchGen on its own, over every list of at most MaxData examples whose  *)
(* contexts and questions come from a few id sequences (one context and    *)
(* one question hold the id 0), every batch size up to MaxBatch, both      *)
(* modes and every generator state.                                        *)
(***************************************************************************)
CtxChoices == { <<1>>, <<2, 0>>, <<1, 1, 2>> }
QChoices == { <<2>>, <<0, 1>> }

RECURSIVE DataSets(_)
\* the lists of n examples; example k has the text k
DataSets(n) ==
    IF n = 0 THEN { <<>> }
    ELSE { Append(d, Ex(n, c, q, n % 2)) : d \in DataSets(n - 1), c \in CtxChoices, q \in QChoices }

MainIdle ==
    /\ opt_bound = TRUE
    /\ data_dev = <<>>
    /\ args = [resume |-> "", save_last_only |-> FALSE, epochs |-> 1, reduce_lr |-> FALSE]
    /\ files = [f \in FileNames |-> NoFile]
    /\ save_failures = 0
    /\ run = 0
    /\ pc = "idle"
    /\ exc = NoExc
    /\ model = None
    /\ checkpoint = None
    /\ epoch_0 = 0
    /\ epoch = 0
    /\ batches = <<>>
    /\ i = 0
    /\ predictions = <<>>
    /\ accuracy = None
    /\ best_val_score = None
    /\ dev = <<>>
    /\ dev_y = <<>>
    /\ torch_state = 0
    /\ events = <<>>
    /\ pred_texts = <<>>
    /\ order_log = {}
    /\ save_log = {}

BatchInit ==
    /\ MainIdle
    /\ random_state \in 0..(RngMod - 1)
    /\ \E n \in 0..MaxData :
          bg_in \in [data : DataSets(n), batch_size : 1..MaxBatch, evaluation : BOOLEAN]
    /\ bg_self = None
    /\ bg_pos = 0
    /\ bg_out = None
    /\ bg_hist = <<>>

\* BatchGen.__init__ (lines 246-269)
BG_init ==
    /\ bg_self = None
    /\ LET bg == BatchGenInit(bg_in.data, bg_in.batch_size, bg_in.evaluation, random_state)
       IN /\ bg_self' = [data |-> bg.data, eval |-> bg.eval]
          /\ random_state' = bg.random_state
    /\ UNCHANGED << bg_in, bg_pos, bg_out, bg_hist, pred_texts >>
    /\ UNCHANGED << opt_bound, data_dev, args, files, save_failures, run, pc, exc, model, checkpoint,
                    epoch_0, epoch, batches, i, predictions, accuracy, best_val_score,
                    dev, dev_y, torch_state, events, order_log, save_log >>

\* one turn of BatchGen.__iter__ (lines 275-339)
BG_iter ==
    /\ bg_self # None
    /\ bg_pos < Len(bg_self.data)
    /\ bg_out' = Collate(bg_self.data[bg_pos + 1], bg_self.eval)
    /\ bg_hist' = Append(bg_hist, bg_out'.text)
    /\ bg_pos' = bg_pos + 1
    /\ UNCHANGED << bg_in, bg_self >>
    /\ UNCHANGED main_vars

NextBatch ==
    \/ BG_init
    \/ BG_iter

SpecBatch == BatchInit /\ [][NextBatch]_vars

(***************************************************************************)
(* Properties of BatchGen (checked under SpecBatch).                       *)
(***************************************************************************)
\* the positions (batch, row) of the built batches
Slots(bs) == UNION {{<<k, j>> : j \in 1..Len(bs[k])} : k \in 1..Len(bs)}

CtxLens(b) == {Len(b[j].ctx) : j \in 1..Len(b)}

NonDecreasing(b) == \A j \in 1..(Len(b) - 1) : Len(b[j].ctx) <= Len(b[j + 1].ctx)

\* C5: BatchGen sorts the examples by context length and cuts the sorted list into
\* consecutive chunks of batch_size: every example is in exactly one batch, every
\* batch has between 1 and batch_size examples, at most one batch is short; in
\* evaluation mode the batches come in ascending-length order, in training mode
\* the same chunks come in some order; and once the iteration is over every
\* example has been yielded in exactly one batch, the batches being yielded as built.
C5_Batches ==
    bg_self # None =>
      LET bs == bg_self.data
          B == bg_in.batch_size
      IN /\ \A x \in {bg_in.data[k] : k \in 1..Len(bg_in.data)} :
               Cardinality({kj \in Slots(bs) : bs[kj[1]][kj[2]] = x}) = 1
         /\ Cardinality(Slots(bs)) = Len(bg_in.data)
         /\ \A k \in 1..Len(bs) : Len(bs[k]) >= 1 /\ Len(bs[k]) <= B
         /\ Cardinality({k \in 1..Len(bs) : Len(bs[k]) < B}) <= 1
         \* chunks of the sorted list: sorted inside, and no two interleave
         /\ \A k \in 1..Len(bs) : NonDecreasing(bs[k])
         /\ \A k, l \in 1..Len(bs) :
               k # l => \/ \A a \in CtxLens(bs[k]), b \in CtxLens(bs[l]) : a <= b
                        \/ \A a \in CtxLens(bs[k]), b \in CtxLens(bs[l]) : b <= a
         \* a short chunk is the tail of the sorted list
         /\ \A k, l \in 1..Len(bs) :
               (k # l /\ Len(bs[k]) < B) =>
                  \A a \in CtxLens(bs[k]), b \in CtxLens(bs[l]) : b <= a
         /\ bg_in.evaluation => bg_self.eval /\ NonDecreasing(Concat(bs))
         /\ bg_hist = [k \in 1..bg_pos |-> [j \in 1..Len(bs[k]) |-> bs[k][j].text]]
         /\ bg_pos = Len(bs) =>
               \A t \in 1..Len(bg_in.data) :
                  Cardinality({k \in 1..Len(bg_hist) :
                                  \E j \in 1..Len(bg_hist[k]) : bg_hist[k][j] = t}) = 1

\* a training BatchGen of two batches, iterated to the end, which yielded its
\* short (last-cut) batch first
C5_Witness ==
    /\ bg_self # None
    /\ ~bg_in.evaluation
    /\ Len(bg_self.data) = 2
    /\ bg_pos = 2
    /\ Len(bg_self.data[1]) < bg_in.batch_size
    /\ Len(bg_self.data[2]) = bg_in.batch_size

\* row r of a yielded id tensor is doc followed by pad_token up to width
RowPadded(row, doc, width) ==
    /\ Len(row) = width
    /\ \A j \in 1..width : row[j] = IF j <= Len(doc) THEN doc[j] ELSE pad_token

\* the batch the last yielded tuple was made of
YieldedBatch == bg_self.data[bg_pos]

\* C6 as stated: in every yielded batch, row i of context_id / question_id is
\* example i's ids padded with pad_token to the longest sequence of the batch, and
\* the masks are true exactly at the padded positions, whatever the ids are.
C6_MaskExactlyPadding ==
    bg_out # None =>
      LET b == YieldedBatch
      IN \A r \in 1..Len(b) :
            /\ RowPadded(bg_out.context_id[r], b[r].ctx, MaxLen([k \in 1..Len(b) |-> b[k].ctx]))
            /\ RowPadded(bg_out.question_id[r], b[r].q, MaxLen([k \in 1..Len(b) |-> b[k].q]))
            /\ \A j \in 1..Len(bg_out.context_mask[r]) :
                  bg_out.context_mask[r][j] = (j > Len(b[r].ctx))
            /\ \A j \in 1..Len(bg_out.question_mask[r]) :
                  bg_out.question_mask[r][j] = (j > Len(b[r].q))

\* C6 amended: the rows are padded as stated; the masks have the shape of the id
\* tensors, are true at every padded position, and at a position holding a real
\* token are true exactly when that token's id equals pad_token.
C6_MaskPadToken ==
    bg_out # None =>
      LET b == YieldedBatch
          cw == MaxLen([k \in 1..Len(b) |-> b[k].ctx])
          qw == MaxLen([k \in 1..Len(b) |-> b[k].q])
      IN /\ Len(bg_out.context_id) = Len(b) /\ Len(bg_out.context_mask) = Len(b)
         /\ Len(bg_out.question_id) = Len(b) /\ Len(bg_out.question_mask) = Len(b)
         /\ \A r \in 1..Len(b) :
            /\ RowPadded(bg_out.context_id[r], b[r].ctx, cw)
            /\ RowPadded(bg_out.question_id[r], b[r].q, qw)
            /\ Len(bg_out.context_mask[r]) = cw
            /\ Len(bg_out.question_mask[r]) = qw
            /\ \A j \in 1..cw :
                  bg_out.context_mask[r][j] =
                     IF j > Len(b[r].ctx) THEN TRUE ELSE b[r].ctx[j] = pad_token
            /\ \A j \in 1..qw :
                  bg_out.question_mask[r][j] =
                     IF j > Len(b[r].q) THEN TRUE ELSE b[r].q[j] = pad_token

\* a yielded batch in which one context is padded and holds the id pad_token
C6_Witness ==
    /\ bg_out # None
    /\ \E r \in 1..Len(YieldedBatch) :
          /\ Len(YieldedBatch[r].ctx) < Len(bg_out.context_id[r])
          /\ \E j \in 1..Len(YieldedBatch[r].ctx) : YieldedBatch[r].ctx[j] = pad_token
          /\ bg_out.context_mask[r][Len(bg_out.context_id[r])]

(***************************************************************************)
(* Properties of main() (checked under Spec).                              *)
(***************************************************************************)
Stopped == pc \in {"done", "exit", "crashed"}
At(op) == {k \in 1..Len(events) : events[k].op = op}
AtEpoch(op, e) == {k \in At(op) : events[k].epoch = e}
LoopBegan == At("epoch") # {}
LastEpoch == epoch_0 + args.epochs - 1
ResumedRun == run >= 1 /\ checkpoint # None

\* C1 as stated: a resumed run evaluates the restored model on the whole dev set
\* before any update; if the accuracy is more than 1e-3 away from the recorded one
\* the run ends by exit(1) with no update made and no checkpoint written, and
\* otherwise training starts with best_val_score = checkpoint['best_eval'].
\* So the check ends in one of these two ways and in no other.
C1_ResumeCheck ==
    ResumedRun =>
      /\ \A k \in At("update") \cup At("save") \cup At("epoch") :
            \E l \in AtEpoch("score", 0) : l < k /\ events[l].n = Len(dev)
      /\ pc = "exit" =>
            /\ Inconsistent(accuracy, checkpoint.accuracy)
            /\ At("update") \cup At("save") = {}
      /\ (pc = "epoch" /\ ~LoopBegan) =>
            /\ ~Inconsistent(accuracy, checkpoint.accuracy)
            /\ best_val_score = checkpoint.best_eval
      /\ (Stopped /\ ~LoopBegan) => pc = "exit"

\* C2: a run resumed (without --reduce_lr) from the checkpoint a run wrote at the
\* end of epoch e starts at epoch e + 1 with model.updates and both generator
\* states as they were when save() was called, and builds the training batches of
\* epoch e + 1 in the order in which the run that wrote the checkpoint built them.
C2_ResumeRestores ==
    (ResumedRun /\ checkpoint.saved_by >= 1 /\ ~args.reduce_lr) =>
      /\ epoch_0 = checkpoint.epoch + 1
      /\ \A k \in At("epoch") : events[k].epoch >= checkpoint.epoch + 1
      /\ \A snap \in save_log :
            (snap.run = checkpoint.saved_by /\ snap.epoch = checkpoint.epoch
             /\ (pc = "resume_eval" \/ (pc = "epoch" /\ ~LoopBegan))) =>
               /\ model.updates = snap.updates
               /\ random_state = snap.random_state
               /\ torch_state = snap.torch_state
      /\ \E snap \in save_log :
            snap.run = checkpoint.saved_by /\ snap.epoch = checkpoint.epoch
      /\ \A a, b \in order_log :
            (a.run = checkpoint.saved_by /\ b.run = run
             /\ a.epoch = checkpoint.epoch + 1 /\ b.epoch = checkpoint.epoch + 1) =>
               a.order = b.order

\* the second run trains epoch 2 from the checkpoint of epoch 1 of the first run,
\* which went on to train epoch 2 itself
C2_Witness ==
    /\ ResumedRun
    /\ checkpoint.saved_by = 1
    /\ checkpoint.epoch = 1
    /\ ~args.reduce_lr
    /\ run = 2
    /\ pc = "train"
    /\ epoch = 2
    /\ data_dev # <<>>
    /\ \E a, b \in order_log : a.run = 1 /\ a.epoch = 2 /\ b.run = 2 /\ b.epoch = 2

\* C3 as stated: without --save_last_only save() is called at the end of every
\* epoch, with checkpoint_epoch_<epoch>.pt; with it, for exactly one epoch of the
\* run, the last.  Stated of a run that has entered its epoch loop and has ended.
C3_SavePolicy ==
    /\ \A k \in At("save") :
          /\ events[k].n.file = CheckpointFile(events[k].epoch)
          /\ args.save_last_only => events[k].epoch = LastEpoch
          /\ Cardinality(AtEpoch("save", events[k].epoch)) = 1
    /\ (Stopped /\ LoopBegan) =>
          {events[k].epoch : k \in At("save")} =
             IF args.save_last_only THEN {LastEpoch} ELSE epoch_0..LastEpoch

\* C4 as stated: a run trains exactly args.epochs epochs, numbered consecutively
\* from epoch_0; in each epoch every training batch is applied before the dev set
\* is evaluated, and the evaluation is over before the checkpoint is saved.
\* Stated of a run that has entered its epoch loop.
C4_EpochLoop ==
    LoopBegan =>
      /\ epoch_0 = IF checkpoint = None THEN 1 ELSE checkpoint.epoch + 1
      /\ {events[k].epoch : k \in At("epoch")} \subseteq epoch_0..LastEpoch
      /\ \A k, l \in At("epoch") :
            k < l => events[l].epoch = events[k].epoch + Cardinality({m \in At("epoch") : k < m /\ m <= l})
      /\ \A k \in At("predict") \cup At("score") :
            events[k].epoch # 0 =>
               Cardinality({l \in AtEpoch("update", events[k].epoch) : l < k}) =
                  Len(Chunks(TrainData, BatchSize))
      /\ \A k \in At("update") :
            \A l \in AtEpoch("predict", events[k].epoch) \cup AtEpoch("score", events[k].epoch) : k < l
      /\ \A k \in At("save") :
            \E l \in AtEpoch("score", events[k].epoch) : l < k /\ events[l].n = Len(dev)
      /\ Stopped =>
            /\ {events[k].epoch : k \in At("epoch")} = epoch_0..LastEpoch
            /\ \A e \in epoch_0..LastEpoch : AtEpoch("score", e) # {}

\* where data['dev'], as stored, holds the example of text t
StoredAt(t) == CHOOSE k \in 1..Len(data_dev) : data_dev[k].text = t

\* C7: in every evaluation pass the predictions gathered so far are those of the
\* first dev examples, in the order of dev_y: prediction k was computed for the
\* example whose label is dev_y[k]; when the pass is over there is one per dev
\* example, so that score()'s assertion holds.
C7_Aligned ==
    /\ exc # "AssertionError"
    /\ pc \in {"resume_eval", "eval"} =>
          /\ Len(predictions) = Len(pred_texts)
          /\ Len(predictions) <= Len(dev_y)
          /\ \A k \in 1..Len(predictions) :
                /\ pred_texts[k] = dev[k].text
                /\ data_dev[StoredAt(pred_texts[k])].y = dev_y[k]
          /\ \A k, l \in 1..Len(pred_texts) : k # l => pred_texts[k] # pred_texts[l]
          /\ i = Len(batches) => Len(predictions) = Len(dev_y)

\* an evaluation pass over a dev set of two batches, stored unsorted, is complete
C7_Witness ==
    /\ pc = "eval"
    /\ i = Len(batches)
    /\ Len(batches) = 2
    /\ Len(predictions) = 3
    /\ data_dev # SortedByLen(data_dev)

\* the last call of save() failed, and nothing but its copyfile came after it
LastSaveFailed ==
    \E k \in At("save") :
       /\ events[k].n.outcome # "ok"
       /\ \A l \in (k + 1)..Len(events) : events[l].op = "copyfile"

C9_PredictAndUpdate ==
    [][ /\ (pc \in {"resume_eval", "eval"} /\ i < Len(batches)) =>
              /\ pc' # "crashed"
              /\ Len(predictions') = Len(predictions) + Len(batches[i + 1])
              /\ \A k \in 1..Len(predictions') : predictions'[k] \in {0, 1}
        /\ (pc = "train" /\ i < Len(batches)) => model'.updates = model.updates + 1
        /\ (~Stopped /\ pc # "idle" /\ ~(pc = "train" /\ i < Len(batches))) =>
              /\ model'.updates = model.updates
              /\ model'.network = model.network
              /\ model'.optimizer = model.optimizer ]_vars

====
